---- MODULE Spec2Model ----
(***************************************************************************)
(* Model of activate-stylus-program (src/src/main.rs): estimation of the   *)
(* activation data fee through a state-overridden eth_call, the optional   *)
(* percentage bump, and the submission of the activation transaction.      *)
(***************************************************************************)
EXTENDS Integers, Sequences, FiniteSets, TLC

(***************************************************************************)
(* Integer widths.  U256 and u64 are modelled with reduced widths so that  *)
(* every product stays inside the range of the model checker's integers;   *)
(* the arithmetic keeps the shape it has in the program (u64 addition that *)
(* traps or wraps with the build profile, U256 multiplication that traps). *)
(***************************************************************************)
U256Bits == 20
U64Bits == 8
MaxEvals == 2

RECURSIVE Pow(_, _)
Pow(b, e) == IF e = 0 THEN 1 ELSE b * Pow(b, e - 1)

U256_MAX == Pow(2, U256Bits) - 1
U64_MAX == Pow(2, U64Bits) - 1
U16_MAX == 65535

None == [tag |-> "None"]
Some(v) == [tag |-> "Some", val |-> v]

(***************************************************************************)
(* Addresses: 20 bytes, most significant byte first.                       *)
(***************************************************************************)
ADDRESS_LEN == 20
WORD_LEN == 32

Zeros(n) == [i \in 1..n |-> 0]
AddressOf(n) == Zeros(ADDRESS_LEN - 1) \o <<n>>

ARB_WASM_LOW_BYTE == 113
ARB_WASM_ADDRESS == AddressOf(ARB_WASM_LOW_BYTE)
\* H160(*ARB_WASM_ADDRESS.0): the same 20 bytes, retyped
ARB_WASM_H160 == [i \in 1..ADDRESS_LEN |-> ARB_WASM_ADDRESS[i]]
\* H160::default(), the account funded_eth_call funds
DefaultAddress == Zeros(ADDRESS_LEN)

\* cfg.address.to_fixed_bytes().into(): byte-for-byte
to_fixed_bytes(h160) == [i \in 1..ADDRESS_LEN |-> h160[i]]

\* ArbWasm::activateProgramCall { program }.abi_encode(): the selector of
\* activateProgram(address) followed by the address left-padded to a word
activateProgramCall_abi_encode(program) ==
    [selector |-> "activateProgram(address)",
     args |-> Zeros(WORD_LEN - ADDRESS_LEN) \o program]

(***************************************************************************)
(* U256 conversion between the two libraries: little-endian bytes.         *)
(***************************************************************************)
U256Bytes == (U256Bits + 7) \div 8

as_le_slice(n) == [i \in 1..U256Bytes |-> (n \div Pow(256, i - 1)) % 256]

RECURSIVE from_little_endian(_)
from_little_endian(bytes) ==
    IF bytes = <<>> THEN 0
    ELSE bytes[1] + 256 * from_little_endian(Tail(bytes))

(***************************************************************************)
(* abi_decode_returns(&outs, true) for (uint16 version, uint256 dataFee).  *)
(* The payload is a sequence of 32-byte words, each given by its value.    *)
(***************************************************************************)
abi_decode_returns(outs) ==
    IF Len(outs) < 2 THEN [ok |-> FALSE, err |-> "Overrun"]
    ELSE IF outs[1] > U16_MAX THEN [ok |-> FALSE, err |-> "TypeCheckFail"]
    ELSE [ok |-> TRUE, version |-> outs[1], dataFee |-> outs[2]]

(***************************************************************************)
(* Strings the program parses are sequences of one-character strings.      *)
(***************************************************************************)
HexDigits == <<"0", "1", "2", "3", "4", "5", "6", "7", "8", "9",
               "a", "b", "c", "d", "e", "f">>
UpperHexDigits == <<"0", "1", "2", "3", "4", "5", "6", "7", "8", "9",
                    "A", "B", "C", "D", "E", "F">>

IsHexChar(c) == \E i \in 1..16 : HexDigits[i] = c \/ UpperHexDigits[i] = c
HexVal(c) == (CHOOSE i \in 1..16 : HexDigits[i] = c \/ UpperHexDigits[i] = c) - 1

\* variant: the prefix is left in place
strip_prefix_0x_kept(s) == s

\* data.strip_prefix("0x").unwrap_or(data)
strip_prefix_0x(s) ==
    IF Len(s) >= 2 /\ s[1] = "0" /\ s[2] = "x" THEN SubSeq(s, 3, Len(s)) ELSE s

\* hex::decode
hex_decode(s) ==
    IF Len(s) % 2 = 1 THEN [ok |-> FALSE, err |-> "OddLength"]
    ELSE IF \E i \in 1..Len(s) : ~IsHexChar(s[i])
         THEN [ok |-> FALSE, err |-> "InvalidHexCharacter"]
    ELSE [ok |-> TRUE,
          bytes |-> [i \in 1..(Len(s) \div 2) |->
                        16 * HexVal(s[2 * i - 1]) + HexVal(s[2 * i])]]

(***************************************************************************)
(* Errors.  An eyre report is its root error plus the contexts wrapped     *)
(* around it; a root is either a typed error converted by `?` or a message *)
(* built by eyre!/bail! from a format string and its argument.             *)
(***************************************************************************)
Report(kind, payload) == [kind |-> kind, payload |-> payload, context |-> <<>>]
Message(fmt, arg) == Report("Message", [fmt |-> fmt, arg |-> arg])
wrap_err(report, ctx) == [report EXCEPT !.context = Append(@, ctx)]

Ok(v) == [tag |-> "Ok", val |-> v]
Err(e) == [tag |-> "Err", err |-> e]

\* impl From<EthCallError> for ErrReport
EthCallError_into_ErrReport(value) == Message("{}", value.msg)

\* Display of a serde_json::Value: strings are printed quoted
DisplayValue(value) ==
    IF value.type = "String" THEN <<"\"">> \o value.repr \o <<"\"">>
    ELSE value.repr

(***************************************************************************)
(* spoof::State: a map from address to account override.                   *)
(***************************************************************************)
DefaultAccount == [balance |-> None, code |-> None]

\* variant: insert(adr, default) in place of entry(adr).or_default()
account_insert(state, adr) ==
    [a \in DOMAIN state \cup {adr} |->
        IF a = adr THEN DefaultAccount ELSE state[a]]

\* State::account(adr): entry(adr).or_default()
account(state, adr) ==
    IF adr \in DOMAIN state THEN state
    ELSE [a \in DOMAIN state \cup {adr} |->
             IF a = adr THEN DefaultAccount ELSE state[a]]

\* spoof::code(address, code)
spoof_code(address, code) ==
    LET state == account(<<>>, address)
    IN  [state EXCEPT ![address].code = Some(code)]

\* state.account(Default::default()).balance = Some(U256::MAX)
fund_default_account(state) ==
    LET funded == account(state, DefaultAddress)
    IN  [funded EXCEPT ![DefaultAddress].balance = Some(U256_MAX)]

(***************************************************************************)
(* funded_eth_call: the request it issues and how it classifies the        *)
(* provider's answer.                                                      *)
(***************************************************************************)
funded_eth_call_request(tx, state) ==
    [tx |-> tx, state |-> fund_default_account(state)]

\* variant: data that is no string counts as an empty revert payload
decode_error_data_lenient(data) ==
    IF data.tag = "None" THEN Ok(<<>>)
    ELSE IF data.val.type = "String"
         THEN LET decoded == hex_decode(strip_prefix_0x(data.val.repr))
              IN  IF decoded.ok THEN Ok(decoded.bytes)
                  ELSE Err(Report("FromHexError", decoded.err))
    ELSE Ok(<<>>)

\* the `data` of a JSON-RPC error response
decode_error_data(data) ==
    IF data.tag = "None" THEN Ok(<<>>)
    ELSE IF data.val.type = "String"
         THEN LET decoded == hex_decode(strip_prefix_0x(data.val.repr))
              IN  IF decoded.ok THEN Ok(decoded.bytes)
                  ELSE Err(Report("FromHexError", decoded.err))
    ELSE Err(Message("failed to decode RPC failure: {}", DisplayValue(data.val)))

\* variant: every JSON-RPC client error counts as a revert
funded_eth_call_all_reverts(response) ==
    IF response.tag = "Ok" THEN Ok(Ok(response.val))
    ELSE IF response.err.variant = "JsonRpcClientError"
         THEN IF response.err.response.tag = "None"
              THEN Ok(Err([data |-> <<>>, msg |-> response.err.text]))
              ELSE LET error == response.err.response.val
                       data == decode_error_data(error.data)
                   IN  IF data.tag = "Err" THEN Err(data.err)
                       ELSE Ok(Err([data |-> data.val, msg |-> error.message]))
    ELSE Err(Report("ProviderError", response.err))

funded_eth_call(response) ==
    IF response.tag = "Ok" THEN Ok(Ok(response.val))
    ELSE IF response.err.variant = "JsonRpcClientError"
         THEN IF response.err.response.tag = "None"
              THEN Err(Message("json RPC failure: {}", response.err.text))
              ELSE LET error == response.err.response.val
                       data == decode_error_data(error.data)
                   IN  IF data.tag = "Err" THEN Err(data.err)
                       ELSE Ok(Err([data |-> data.val, msg |-> error.message]))
    ELSE Err(Report("ProviderError", response.err))

\* estimate_activation_data_fee from the answer of the simulated call on:
\* the `??`, the decoding of the return tuple and the U256 conversion
estimate_from_call(response) ==
    LET outer == funded_eth_call(response)
    IN  IF outer.tag = "Err" THEN Err(outer.err)
        ELSE IF outer.val.tag = "Err"
             THEN Err(EthCallError_into_ErrReport(outer.val.err))
        ELSE LET ret == abi_decode_returns(outer.val.val)
             IN  IF ~ret.ok THEN Err(Report("alloy_sol_types::Error", ret.err))
                 ELSE Ok(from_little_endian(as_le_slice(ret.dataFee)))

\* the transaction of the simulated call
estimate_tx(address) ==
    [from |-> None,
     to |-> ARB_WASM_H160,
     data |-> activateProgramCall_abi_encode(to_fixed_bytes(address)),
     value |-> [amount |-> 1, unit |-> "ether"]]

(***************************************************************************)
(* State.                                                                  *)
(***************************************************************************)
VARIABLES
    cfg,              \* CommonConfig: private_key, endpoint, address, bump_fee_percent
    overflow_checks,  \* build profile: does u64 `+` trap on overflow (else it wraps)
    pc,               \* position in activate_stylus_program
    signer,           \* the SignerMiddleware's wallet: address and chain id
    code_resp,        \* answer of provider.get_code
    sim,              \* the simulated call as issued: transaction and state override
    call_resp,        \* answer of provider.call_raw
    estimate,         \* Ok(fee) / Err(report) of estimate_activation_data_fee
    data_fee,         \* the local `data_fee`
    tx,               \* the transaction built for submission
    sent,             \* transactions handed to signer.send_transaction, in order
    net,              \* network steps taken, in order
    status,           \* submission state
    receipt,          \* what the confirmation wait yielded
    result,           \* outcome of activate_stylus_program
    evals             \* evaluations of bump_data_fee on chosen inputs

vars == <<cfg, overflow_checks, pc, signer, code_resp, sim, call_resp, estimate,
          data_fee, tx, sent, net, status, receipt, result, evals>>

(***************************************************************************)
(* bump_data_fee.  `100 + pct` is u64 addition: it traps in a build with   *)
(* overflow checks and wraps otherwise.  U256 `*` traps on overflow in     *)
(* every build.                                                            *)
(***************************************************************************)
Panic == [ok |-> FALSE, val |-> 0]
Value(v) == [ok |-> TRUE, val |-> v]

u64_add(a, b) ==
    IF a + b <= U64_MAX THEN Value(a + b)
    ELSE IF overflow_checks THEN Panic
    ELSE Value((a + b) % (U64_MAX + 1))

U256_mul(a, b) == IF a * b <= U256_MAX THEN Value(a * b) ELSE Panic

bump_data_fee(fee, pct) ==
    LET num == u64_add(100, pct)
    IN  IF ~num.ok THEN Panic
        ELSE LET prod == U256_mul(fee, num.val)
             IN  IF ~prod.ok THEN Panic ELSE Value(prod.val \div 100)

(***************************************************************************)
(* Inputs: the command line, and what the node may answer.                 *)
(***************************************************************************)
Endpoints == {"http://localhost:8547", "not a url"}
ValidEndpoint(url) == url = "http://localhost:8547"

PrivateKeys == {"key-a", "key-b", "not a key"}
ValidKey(key) == key \in {"key-a", "key-b"}
\* the address a wallet derives from its key
WalletAddress(key) == IF key = "key-a" THEN AddressOf(161) ELSE AddressOf(162)

ProgramAddresses == {AddressOf(0), AddressOf(1), AddressOf(ARB_WASM_LOW_BYTE)}

BumpPercents ==
    {0, 10, 20, 50, U64_MAX - 100, U64_MAX - 99, U64_MAX}

Fees ==
    {0, 1, 100, 1000, U256_MAX \div 100, U256_MAX \div 100 + 1, U256_MAX}

Configs ==
    [private_key : PrivateKeys,
     endpoint : Endpoints,
     address : ProgramAddresses,
     bump_fee_percent : {None} \cup {Some(p) : p \in BumpPercents}]

ChainIds == {412346}

ProviderError(variant, response, text) ==
    [variant |-> variant, response |-> response, text |-> text]

\* failures that are not a JSON-RPC error response
TransportErrors ==
    {ProviderError("JsonRpcClientError", None, "connection refused"),
     ProviderError("JsonRpcClientError", None, "operation timed out"),
     ProviderError("SerdeJson", None, "expected value at line 1 column 1")}

Bytecodes == {<<>>, <<0, 97, 115, 109>>}

GetCodeResponses == {Ok(c) : c \in Bytecodes} \cup {Err(e) : e \in TransportErrors}

Messages == {"execution reverted: already activated", "execution reverted"}

JsonString(s) == [type |-> "String", repr |-> s]

HexPayloads ==
    {<<>>,
     <<"0", "x">>,
     <<"0", "x", "6", "f", "7", "a">>,
     <<"6", "f", "7", "a">>,
     <<"0", "x", "6", "F", "7", "A">>}

NonHexStrings ==
    {<<"0", "x", "6", "f", "7">>,
     <<"0", "x", "z", "z">>,
     <<"0", "X", "6", "f">>,
     <<"r", "e", "v", "e", "r", "t">>}

NonStringValues ==
    {[type |-> "Number", repr |-> <<"3">>],
     [type |-> "Bool", repr |-> <<"t", "r", "u", "e">>],
     [type |-> "Array", repr |-> <<"[", "]">>],
     [type |-> "Object", repr |-> <<"{", "}">>]}

ErrorData ==
    {None} \cup {Some(JsonString(s)) : s \in HexPayloads \cup NonHexStrings}
           \cup {Some(v) : v \in NonStringValues}

ErrorResponses == [message : Messages, data : ErrorData]

ReturnPayloads ==
    {<<>>, <<1>>, <<U16_MAX + 1, 1000>>} \cup {<<1, f>> : f \in Fees}

CallResponses ==
    {Ok(b) : b \in ReturnPayloads}
    \cup {Err(ProviderError("JsonRpcClientError", Some(r), r.message)) :
              r \in ErrorResponses}
    \cup {Err(e) : e \in TransportErrors}

SendResponses ==
    {Ok("pending"),
     Err(Report("SignerMiddlewareError", "SignerError")),
     Err(Report("SignerMiddlewareError", "MiddlewareError"))}

Receipts == {[transaction_hash |-> "0xa1"], [transaction_hash |-> "0xb2"]}

ConfirmResponses ==
    {Ok(Some(r)) : r \in Receipts} \cup {Ok(None)}
    \cup {Err(Report("ProviderError", e)) : e \in TransportErrors}

(***************************************************************************)
(* activate_stylus_program, one action per step.                           *)
(***************************************************************************)
Running == [tag |-> "Running"]
Panicked == [tag |-> "Panic"]

Init ==
    /\ cfg \in Configs
    /\ overflow_checks \in BOOLEAN
    /\ pc = "new_provider"
    /\ signer = None
    /\ code_resp = None
    /\ sim = None
    /\ call_resp = None
    /\ estimate = None
    /\ data_fee = None
    /\ tx = None
    /\ sent = <<>>
    /\ net = <<>>
    /\ status = "NotBuilt"
    /\ receipt = None
    /\ result = Running
    /\ evals = {}

\* new_provider(&cfg.endpoint)?
NewProvider ==
    /\ pc = "new_provider"
    /\ IF ValidEndpoint(cfg.endpoint)
       THEN pc' = "get_chainid" /\ UNCHANGED result
       ELSE /\ pc' = "done"
            /\ result' = Err(wrap_err(Report("url::ParseError", cfg.endpoint),
                                      "failed to init http provider"))
    /\ UNCHANGED <<cfg, overflow_checks, signer, code_resp, sim, call_resp,
                   estimate, data_fee, tx, sent, net, status, receipt, evals>>

\* provider.get_chainid().await?, LocalWallet::from_str(..)?, SignerMiddleware::new
GetChainId ==
    /\ pc = "get_chainid"
    /\ net' = Append(net, "chain_id")
    /\ \E r \in {Ok(c) : c \in ChainIds} \cup {Err(e) : e \in TransportErrors} :
          IF r.tag = "Err"
          THEN /\ pc' = "done"
               /\ result' = Err(Report("ProviderError", r.err))
               /\ UNCHANGED signer
          ELSE IF ~ValidKey(cfg.private_key)
          THEN /\ pc' = "done"
               /\ result' = Err(Report("WalletError", cfg.private_key))
               /\ UNCHANGED signer
          ELSE /\ pc' = "get_code"
               /\ signer' = Some([address |-> WalletAddress(cfg.private_key),
                                  chain_id |-> r.val])
               /\ UNCHANGED result
    /\ UNCHANGED <<cfg, overflow_checks, code_resp, sim, call_resp, estimate,
                   data_fee, tx, sent, status, receipt, evals>>

\* variant: a failed estimate falls back to a zero fee and the run goes on
EstimateFailed_fallback(report) ==
    /\ estimate' = Err(report)
    /\ data_fee' = Some(0)
    /\ pc' = "bump"
    /\ UNCHANGED result

\* how activate_stylus_program takes the estimate: wrap_err(..)? on failure
EstimateFailed(report) ==
    /\ estimate' = Err(report)
    /\ result' = Err(wrap_err(report, "failed to check activation via spoofed eth_call"))
    /\ pc' = "done"
    /\ UNCHANGED data_fee

\* estimate_activation_data_fee up to provider.get_code(address, None).await?
GetCode ==
    /\ pc = "get_code"
    /\ net' = Append(net, "get_code")
    /\ \E r \in GetCodeResponses :
          /\ code_resp' = Some(r)
          /\ IF r.tag = "Err"
             THEN EstimateFailed(Report("ProviderError", r.err))
             ELSE pc' = "eth_call" /\ UNCHANGED <<estimate, result, data_fee>>
    /\ UNCHANGED <<cfg, overflow_checks, signer, sim, call_resp, tx, sent,
                   status, receipt, evals>>

\* spoof::code, funded_eth_call(tx, state, provider).await??, the decoding,
\* and the return into activate_stylus_program
EthCall ==
    /\ pc = "eth_call"
    /\ net' = Append(net, "eth_call")
    /\ sim' = Some(funded_eth_call_request(estimate_tx(cfg.address),
                                           spoof_code(cfg.address, code_resp.val.val)))
    /\ \E r \in CallResponses :
          /\ call_resp' = Some(r)
          /\ LET fee == estimate_from_call(r)
             IN  IF fee.tag = "Err"
                 THEN EstimateFailed(fee.err)
                 ELSE /\ estimate' = fee
                      /\ data_fee' = Some(fee.val)
                      /\ pc' = "bump"
                      /\ UNCHANGED result
    /\ UNCHANGED <<cfg, overflow_checks, signer, code_resp, tx, sent, status,
                   receipt, evals>>

\* if let Some(bump_percent) = cfg.bump_fee_percent { data_fee = bump_data_fee(..) }
Bump ==
    /\ pc = "bump"
    /\ IF cfg.bump_fee_percent.tag = "None"
       THEN pc' = "build" /\ UNCHANGED <<data_fee, result>>
       ELSE LET bumped == bump_data_fee(data_fee.val, cfg.bump_fee_percent.val)
            IN  IF bumped.ok
                THEN /\ data_fee' = Some(bumped.val)
                     /\ pc' = "build"
                     /\ UNCHANGED result
                ELSE /\ pc' = "done"
                     /\ result' = Panicked
                     /\ UNCHANGED data_fee
    /\ UNCHANGED <<cfg, overflow_checks, signer, code_resp, sim, call_resp,
                   estimate, tx, sent, net, status, receipt, evals>>

\* the Eip1559TransactionRequest of the activation
activation_tx ==
    [from |-> Some(signer.val.address),
     to |-> ARB_WASM_H160,
     value |-> data_fee.val,
     data |-> activateProgramCall_abi_encode(to_fixed_bytes(cfg.address))]

Build ==
    /\ pc = "build"
    /\ tx' = Some(activation_tx)
    /\ status' = "Built"
    /\ pc' = "send"
    /\ UNCHANGED <<cfg, overflow_checks, signer, code_resp, sim, call_resp,
                   estimate, data_fee, sent, net, receipt, result, evals>>

\* signer.send_transaction(tx, None).await?
Send ==
    /\ pc = "send"
    /\ net' = Append(net, "send_transaction")
    /\ sent' = Append(sent, tx.val)
    /\ \E r \in SendResponses :
          IF r.tag = "Err"
          THEN /\ status' = "TransportFailed"
               /\ result' = Err(r.err)
               /\ pc' = "done"
          ELSE /\ status' = "Submitted"
               /\ pc' = "confirm"
               /\ UNCHANGED result
    /\ UNCHANGED <<cfg, overflow_checks, signer, code_resp, sim, call_resp,
                   estimate, data_fee, tx, receipt, evals>>

\* variant: a wait that yields no receipt is taken for success
Confirm_none_is_success ==
    /\ pc = "confirm"
    /\ net' = Append(net, "confirmation")
    /\ pc' = "done"
    /\ \E r \in ConfirmResponses :
          IF r.tag = "Err"
          THEN /\ status' = "TransportFailed"
               /\ result' = Err(r.err)
               /\ UNCHANGED receipt
          ELSE IF r.val.tag = "None"
          THEN /\ status' = "Confirmed"
               /\ result' = Ok("()")
               /\ UNCHANGED receipt
          ELSE /\ status' = "Confirmed"
               /\ receipt' = r.val
               /\ result' = Ok("()")
    /\ UNCHANGED <<cfg, overflow_checks, signer, code_resp, sim, call_resp,
                   estimate, data_fee, tx, sent, evals>>

\* match tx.await? { Some(receipt) => .., None => bail!(..) }
Confirm ==
    /\ pc = "confirm"
    /\ net' = Append(net, "confirmation")
    /\ pc' = "done"
    /\ \E r \in ConfirmResponses :
          IF r.tag = "Err"
          THEN /\ status' = "TransportFailed"
               /\ result' = Err(r.err)
               /\ UNCHANGED receipt
          ELSE IF r.val.tag = "None"
          THEN /\ status' = "NotConfirmed"
               /\ result' = Err(Message("Failed to activate program {}", cfg.address))
               /\ UNCHANGED receipt
          ELSE /\ status' = "Confirmed"
               /\ receipt' = r.val
               /\ result' = Ok("()")
    /\ UNCHANGED <<cfg, overflow_checks, signer, code_resp, sim, call_resp,
                   estimate, data_fee, tx, sent, evals>>

Next ==
    \/ NewProvider
    \/ GetChainId
    \/ GetCode
    \/ EthCall
    \/ Bump
    \/ Build
    \/ Send
    \/ Confirm

Spec == Init /\ [][Next]_vars

\* the runtime drives the single task until it returns
FairSpec == Spec /\ WF_vars(Next)

(***************************************************************************)
(* bump_data_fee on its own: inputs drawn from the corners of its domain,  *)
(* each evaluation recorded with what it returned.                         *)
(***************************************************************************)
BumpInit ==
    /\ cfg = [private_key |-> "key-a", endpoint |-> "http://localhost:8547",
              address |-> AddressOf(1), bump_fee_percent |-> None]
    /\ overflow_checks \in BOOLEAN
    /\ pc = "bump_data_fee"
    /\ signer = None
    /\ code_resp = None
    /\ sim = None
    /\ call_resp = None
    /\ estimate = None
    /\ data_fee = None
    /\ tx = None
    /\ sent = <<>>
    /\ net = <<>>
    /\ status = "NotBuilt"
    /\ receipt = None
    /\ result = Running
    /\ evals = {}

Evaluate ==
    /\ Cardinality(evals) < MaxEvals
    /\ \E fee \in Fees, pct \in BumpPercents :
          evals' = evals \cup
                     {[fee |-> fee, pct |-> pct, out |-> bump_data_fee(fee, pct)]}
    /\ UNCHANGED <<cfg, overflow_checks, pc, signer, code_resp, sim, call_resp,
                   estimate, data_fee, tx, sent, net, status, receipt, result>>

BumpNext == Evaluate

BumpSpec == BumpInit /\ [][BumpNext]_vars

(***************************************************************************)
(* Vocabulary of the properties.                                           *)
(***************************************************************************)
\* floor(base * (100 + percent) / 100) over unbounded integers
ExactBump(base, percent) == (base * (100 + percent)) \div 100

HexCharSet == {"0", "1", "2", "3", "4", "5", "6", "7", "8", "9",
               "a", "b", "c", "d", "e", "f", "A", "B", "C", "D", "E", "F"}

\* a hex encoding of bytes, with or without the 0x prefix
IsHexString(s) ==
    LET digits == IF Len(s) >= 2 /\ SubSeq(s, 1, 2) = <<"0", "x">>
                  THEN SubSeq(s, 3, Len(s)) ELSE s
    IN  /\ Len(digits) % 2 = 0
        /\ \A i \in 1..Len(digits) : digits[i] \in HexCharSet

\* the simulated call was answered by a structured JSON-RPC error
IsErrorResponse ==
    /\ call_resp.tag = "Some"
    /\ call_resp.val.tag = "Err"
    /\ call_resp.val.err.variant = "JsonRpcClientError"
    /\ call_resp.val.err.response.tag = "Some"

ErrorResponse == call_resp.val.err.response.val

\* the simulated call failed without a structured JSON-RPC error
IsCallTransportFailure ==
    /\ call_resp.tag = "Some"
    /\ call_resp.val.tag = "Err"
    /\ call_resp.val.err.response.tag = "None"

IsGetCodeFailure == code_resp.tag = "Some" /\ code_resp.val.tag = "Err"

\* the three kinds of estimation failure, as the top level can tell them apart
IsSimulationReverted(report) ==
    report.kind = "Message" /\ report.payload.fmt = "{}"

IsMalformedRpcError(report) ==
    \/ report.kind = "FromHexError"
    \/ report.kind = "Message"
       /\ report.payload.fmt = "failed to decode RPC failure: {}"

IsTransportError(report) ==
    \/ report.kind = "ProviderError"
    \/ report.kind = "Message" /\ report.payload.fmt = "json RPC failure: {}"

\* the estimation failed with `report`, the run ended with it, no fee, no send
EstimationFailedWith(report) ==
    /\ estimate = Err(report)
    /\ result = Err(wrap_err(report, "failed to check activation via spoofed eth_call"))
    /\ pc = "done"
    /\ data_fee = None
    /\ tx = None
    /\ sent = <<>>

Count(seq, x) == Cardinality({i \in 1..Len(seq) : seq[i] = x})

(***************************************************************************)
(* Fee policy.                                                             *)
(***************************************************************************)

\* C3: for every base fee and every percent, bump_data_fee returns exactly
\* floor(base * (100 + percent) / 100) over unbounded integers; neither the
\* sum nor the product overflows, wraps, truncates or aborts.
C3_BumpIsExact ==
    \A e \in evals : e.out.ok /\ e.out.val = ExactBump(e.fee, e.pct)

\* C7: bump_data_fee(fee, 0) returns exactly fee for every fee, including
\* fees above U256::MAX / 100.
C7_ZeroPercentIsIdentity ==
    \A e \in evals : e.pct = 0 => e.out.ok /\ e.out.val = e.fee

\* C8: bump_data_fee is monotone in both arguments over its whole domain:
\* raising the percent for a fixed fee, or the fee for a fixed percent,
\* never lowers the result.
C8_BumpIsMonotone ==
    \A e1, e2 \in evals :
        (\/ e1.fee = e2.fee /\ e1.pct <= e2.pct
         \/ e1.pct = e2.pct /\ e1.fee <= e2.fee)
        => /\ e1.out.ok
           /\ e2.out.ok
           /\ e1.out.val <= e2.out.val

(***************************************************************************)
(* Submission.                                                             *)
(***************************************************************************)

\* C2: the submitted transaction goes to the system contract, carries the
\* encoded activateProgram(program) call, is sent from the signer's own
\* address, and its value is the estimate scaled by (100 + percent) / 100
\* when a bump is configured and the unmodified estimate when none is.
C2_SubmittedTransaction ==
    \A i \in 1..Len(sent) :
        /\ sent[i].to = AddressOf(113)
        /\ sent[i].data = [selector |-> "activateProgram(address)",
                           args |-> Zeros(12) \o cfg.address]
        /\ sent[i].from = Some(WalletAddress(cfg.private_key))
        /\ estimate.tag = "Ok"
        /\ sent[i].value =
              IF cfg.bump_fee_percent.tag = "None" THEN estimate.val
              ELSE ExactBump(estimate.val, cfg.bump_fee_percent.val)

(***************************************************************************)
(* Classification of the simulated call's failures.                        *)
(***************************************************************************)

\* C1: a structured JSON-RPC error whose data is absent or a hex string
\* (with or without 0x) makes the estimation fail as a simulation revert
\* carrying exactly the node's message: not a transport error, not a
\* malformed-RPC error, and no fee.
C1_RevertCarriesMessage ==
    (/\ IsErrorResponse
     /\ \/ ErrorResponse.data.tag = "None"
        \/ /\ ErrorResponse.data.val.type = "String"
           /\ IsHexString(ErrorResponse.data.val.repr))
    => /\ estimate.tag = "Err"
       /\ EstimationFailedWith(estimate.err)
       /\ IsSimulationReverted(estimate.err)
       /\ estimate.err.payload.arg = ErrorResponse.message
       /\ ~IsTransportError(estimate.err)
       /\ ~IsMalformedRpcError(estimate.err)

C1_Witness ==
    /\ IsErrorResponse
    /\ ErrorResponse.data.tag = "Some"
    /\ ErrorResponse.data.val.repr = <<"0", "x", "6", "f", "7", "a">>
    /\ ErrorResponse.message = "execution reverted: already activated"
    /\ result.tag = "Err"
    /\ pc = "done"

\* C6: a structured JSON-RPC error whose data is present but not a hex
\* string (a non-string value, or a string that is not valid hex) makes the
\* estimation fail as a malformed RPC error: distinct from a transport
\* error and from a revert, never a success, and no fee.
C6_MalformedData ==
    (/\ IsErrorResponse
     /\ ErrorResponse.data.tag = "Some"
     /\ \/ ErrorResponse.data.val.type # "String"
        \/ ~IsHexString(ErrorResponse.data.val.repr))
    => /\ estimate.tag = "Err"
       /\ EstimationFailedWith(estimate.err)
       /\ IsMalformedRpcError(estimate.err)
       /\ ~IsTransportError(estimate.err)
       /\ ~IsSimulationReverted(estimate.err)

C6_Witness ==
    /\ IsErrorResponse
    /\ ErrorResponse.data.tag = "Some"
    /\ ErrorResponse.data.val.type = "Object"
    /\ result.tag = "Err"
    /\ pc = "done"

\* the provider error that made the estimation fail at the transport level
TransportFailure ==
    IF IsGetCodeFailure THEN code_resp.val.err ELSE call_resp.val.err

\* C9 as stated: a transport-level failure during estimation (a failed
\* bytecode fetch, or a simulated call that fails without a structured
\* JSON-RPC error) is propagated as a transport error, unmodified; never a
\* revert or a malformed RPC error, never a fee, never retried.
C9_TransportUnmodified ==
    (IsGetCodeFailure \/ IsCallTransportFailure)
    => /\ estimate.tag = "Err"
       /\ EstimationFailedWith(estimate.err)
       /\ estimate.err = Report("ProviderError", TransportFailure)
       /\ ~IsSimulationReverted(estimate.err)
       /\ ~IsMalformedRpcError(estimate.err)
       /\ Count(net, "get_code") = 1
       /\ Count(net, "eth_call") <= 1

\* C9 amended: the failure is propagated as a transport error, never as a
\* revert or a malformed RPC error, with no fee and no retry.  It is the
\* provider's error unmodified, except that a JSON-RPC client error of the
\* simulated call that is no error response is replaced by a new message,
\* "json RPC failure: " followed by the text of that error.
C9_TransportPropagated ==
    (IsGetCodeFailure \/ IsCallTransportFailure)
    => /\ estimate.tag = "Err"
       /\ EstimationFailedWith(estimate.err)
       /\ IsTransportError(estimate.err)
       /\ IF IsCallTransportFailure
             /\ call_resp.val.err.variant = "JsonRpcClientError"
          THEN estimate.err =
                  Message("json RPC failure: {}", call_resp.val.err.text)
          ELSE estimate.err = Report("ProviderError", TransportFailure)
       /\ ~IsSimulationReverted(estimate.err)
       /\ ~IsMalformedRpcError(estimate.err)
       /\ Count(net, "get_code") = 1
       /\ Count(net, "eth_call") <= 1

C9_Witness ==
    /\ IsCallTransportFailure
    /\ call_resp.val.err.variant = "JsonRpcClientError"
    /\ call_resp.val.err.text = "operation timed out"
    /\ result.tag = "Err"
    /\ pc = "done"

(***************************************************************************)
(* The state override of the simulated call.                               *)
(***************************************************************************)

\* C10: for every program address, the zero address included, the override
\* passed to the simulated call covers exactly the zero address and the
\* program account: the zero address gets balance U256::MAX, the program
\* gets the bytecode just fetched, and neither override displaces the other.
C10_OverrideFrame ==
    sim.tag = "Some"
    => LET state == sim.val.state
       IN  /\ DOMAIN state = {Zeros(20), cfg.address}
           /\ state[Zeros(20)].balance = Some(U256_MAX)
           /\ state[cfg.address].code = Some(code_resp.val.val)
           /\ cfg.address # Zeros(20)
              => /\ state[Zeros(20)].code = None
                 /\ state[cfg.address].balance = None

C10_Witness ==
    /\ sim.tag = "Some"
    /\ cfg.address = Zeros(20)
    /\ code_resp.val.val = <<0, 97, 115, 109>>

(***************************************************************************)
(* Order of the steps and the submission state machine.                    *)
(***************************************************************************)
StepOrder == <<"chain_id", "get_code", "eth_call", "send_transaction", "confirmation">>

\* C4: the network steps happen in the order chain-id lookup, bytecode
\* fetch, simulated call, submission, confirmation wait; a transaction is
\* submitted only after the first three succeeded and the return value
\* decoded; a failed estimation sends nothing and substitutes no fee.
C4_OrderAndNoFallback ==
    /\ Len(net) <= Len(StepOrder)
    /\ net = SubSeq(StepOrder, 1, Len(net))
    /\ (sent # <<>> \/ tx.tag = "Some")
       => /\ signer.tag = "Some"
          /\ code_resp.tag = "Some" /\ code_resp.val.tag = "Ok"
          /\ call_resp.tag = "Some" /\ call_resp.val.tag = "Ok"
          /\ abi_decode_returns(call_resp.val.val).ok
          /\ estimate = Ok(abi_decode_returns(call_resp.val.val).dataFee)
    /\ estimate.tag = "Err"
       => /\ sent = <<>>
          /\ tx = None
          /\ data_fee = None
          /\ Count(net, "send_transaction") = 0
          /\ result.tag = "Err"
          /\ pc = "done"

C4_Witness ==
    /\ call_resp.tag = "Some"
    /\ call_resp.val = Ok(<<1>>)
    /\ estimate.tag = "Err"
    /\ pc = "done"

Terminal == {"Confirmed", "NotConfirmed", "TransportFailed"}

====
